---- MODULE Spec2Model ----
(***************************************************************************)
(* A model of src/project/src/utils/pdfMarkdownParser.ts: the inline style *)
(* tokenizer, the indentation rule, the forced word splitter, the line     *)
(* breaker, the justifier and the page driver parsePDFMarkdown, run        *)
(* against a drawing surface (jsPDF) whose font style and size are global  *)
(* state.                                                                  *)
(*                                                                         *)
(* Representation.                                                         *)
(*   - A string is a sequence of one-character strings.                    *)
(*   - Font sizes are in hundredths of a point (10pt = 1000), so that the  *)
(*     heading factor 2.5 - 0.3*level and the table of applyStyle are      *)
(*     whole numbers.                                                      *)
(*   - Horizontal lengths (widths, x, maxWidth) are in 1/400 of the        *)
(*     document unit: a text of advance a (in em) at size s measures       *)
(*     4*a*s, baseIndentation q/4 at size s is q*s, the list offset 5 is   *)
(*     2000.                                                               *)
(*   - baseIndentation is in quarters (0.25 = 1).                          *)
(*   - An x coordinate is a fraction x / xden (centering halves a width,   *)
(*     justification divides one by the number of gaps); the model keeps   *)
(*     it exact where JavaScript rounds to a double.                       *)
(*   - Vertical lengths (y, lineHeight, maxY) are whole numbers.           *)
(***************************************************************************)
EXTENDS Integers, Sequences, FiniteSets, TLC

VARIABLES
  font,       \* the measure function of the surface: the name of a metric
  doc,        \* the surface's state: [fontStyle, fontSize]
  calls,      \* the surface calls made so far (getTextWidth, text), in order
  textLines,  \* parsePDFMarkdown: text.split('\n') after normalisation
  options,    \* parsePDFMarkdown: [maxWidth, align, fontSize, lineHeight]
  x,          \* parsePDFMarkdown: the x argument
  maxY,       \* parsePDFMarkdown: pageHeight - marginBottom
  currentY,   \* parsePDFMarkdown: the vertical cursor
  i,          \* parsePDFMarkdown: the loop index (1-based)
  ret,        \* parsePDFMarkdown: the returned y
  call,       \* a function under check: its name and arguments
  frame,      \* the local variables of that function while it runs
  result,     \* what it returned
  pc          \* where the run is

vars == <<font, doc, calls, textLines, options, x, maxY, currentY, i, ret,
          call, frame, result, pc>>

driverVars == <<textLines, options, x, maxY, currentY, i, ret>>

None == "none"

(***************************************************************************)
(* Sequence helpers.                                                       *)
(***************************************************************************)
RECURSIVE ConcatAll(_)
ConcatAll(ss) ==
  IF ss = <<>> THEN <<>> ELSE Head(ss) \o ConcatAll(Tail(ss))

RECURSIVE SumSeq(_)
SumSeq(ns) ==
  IF ns = <<>> THEN 0 ELSE Head(ns) + SumSeq(Tail(ns))

RECURSIVE SeqsUpTo(_, _)
SeqsUpTo(S, n) ==
  IF n = 0 THEN {<<>>}
  ELSE LET shorter == SeqsUpTo(S, n - 1)
       IN  shorter \cup {Append(s, c) : s \in shorter, c \in S}

(***************************************************************************)
(* TextStyle (lines 3-11).  Only bold, italic and heading are ever read;   *)
(* list, listType, listLevel and indentation are written once at line      *)
(* 51-59 and never read, and are left out.  heading: null is 0.            *)
(***************************************************************************)
TextStyle(bold, italic) ==
  [bold |-> bold, italic |-> italic, heading |-> 0]

PlainStyle == TextStyle(FALSE, FALSE)

TextSegment(text, style) == [text |-> text, style |-> style]

(***************************************************************************)
(* parseInlineMarkdown (lines 48-90).                                      *)
(***************************************************************************)
IsMarker(c) == c = "*" \/ c = "_"

\* isDouble never true: every marker read as a single one.
IsDoubleNever(text, k) == FALSE

\* text[i + 1] === marker, where reading past the end gives undefined.
IsDouble(text, k) == k + 1 <= Len(text) /\ text[k + 1] = text[k]

\* if (currentText) segments.push({text: currentText, style: {...currentStyle}})
Flush(segments, currentText, currentStyle) ==
  IF currentText # <<>>
  THEN Append(segments, TextSegment(currentText, currentStyle))
  ELSE segments

RECURSIVE ParseInlineLoop(_, _, _, _, _)
ParseInlineLoop(text, k, segments, currentText, currentStyle) ==
  IF k > Len(text)
  THEN Flush(segments, currentText, currentStyle)
  ELSE IF IsMarker(text[k])
       THEN LET flushed == Flush(segments, currentText, currentStyle)
            IN  IF IsDouble(text, k)
                THEN ParseInlineLoop(text, k + 2, flushed, <<>>,
                       [currentStyle EXCEPT !.bold = ~currentStyle.bold])
                ELSE ParseInlineLoop(text, k + 1, flushed, <<>>,
                       [currentStyle EXCEPT !.italic = ~currentStyle.italic])
       ELSE ParseInlineLoop(text, k + 1, segments,
              Append(currentText, text[k]), currentStyle)

parseInlineMarkdown(text) ==
  ParseInlineLoop(text, 1, <<>>, <<>>, PlainStyle)

(***************************************************************************)
(* The drawing surface (jsPDF).  A surface value sf carries the surface's  *)
(* global state and the log of calls made on it:                           *)
(*   [fontStyle, fontSize, log].                                           *)
(* getTextWidth is the injected measure function: the sum of the glyph     *)
(* advances of the text in the current font style, times the current font  *)
(* size.  Three measure functions are modelled (variable font):            *)
(*   "mono"   every glyph advances 1 em in every style;                    *)
(*   "heavy"  every glyph, the space included, advances 2 em in the bold   *)
(*            styles and 1 em otherwise;                                   *)
(*   "prop"   "b" advances 2 em, every other glyph 1 em, in every style.   *)
(***************************************************************************)
Fonts == {"mono", "heavy", "prop"}

FontStyles == {"normal", "bold", "italic", "bolditalic"}

Advance(f, fontStyle, c) ==
  CASE f = "heavy" -> IF fontStyle \in {"bold", "bolditalic"} THEN 2 ELSE 1
    [] f = "prop"  -> IF c = "b" THEN 2 ELSE 1
    [] OTHER       -> 1

RECURSIVE AdvanceSum(_, _, _)
AdvanceSum(f, fontStyle, text) ==
  IF text = <<>> THEN 0
  ELSE Advance(f, fontStyle, Head(text)) + AdvanceSum(f, fontStyle, Tail(text))

Surface(d, log) ==
  [fontStyle |-> d.fontStyle, fontSize |-> d.fontSize, log |-> log]

DocOf(sf) == [fontStyle |-> sf.fontStyle, fontSize |-> sf.fontSize]

\* doc.getTextWidth(text): the value.
getTextWidth(sf, text) == 4 * AdvanceSum(font, sf.fontStyle, text) * sf.fontSize

\* doc.getTextWidth(text): the call, logged with the style the measured item
\* asks for (own).
Measure(sf, text, own) ==
  [sf EXCEPT !.log = Append(@, [op |-> "getTextWidth", text |-> text,
                                x |-> 0, xden |-> 1, y |-> 0,
                                fontStyle |-> sf.fontStyle,
                                fontSize |-> sf.fontSize, own |-> own])]

\* doc.text(text, x, y): the call, logged the same way; px is a fraction
\* [n, d].
DrawText(sf, text, px, py, own) ==
  [sf EXCEPT !.log = Append(@, [op |-> "text", text |-> text,
                                x |-> px.n, xden |-> px.d, y |-> py,
                                fontStyle |-> sf.fontStyle,
                                fontSize |-> sf.fontSize, own |-> own])]

setFont(sf, fontStyle) == [sf EXCEPT !.fontStyle = fontStyle]

setFontSize(sf, size) == [sf EXCEPT !.fontSize = size]

(***************************************************************************)
(* applyStyle (lines 26-46).                                               *)
(***************************************************************************)
FontStyleOf(style) ==
  IF style.bold /\ style.italic THEN "bolditalic"
  ELSE IF style.bold THEN "bold"
  ELSE IF style.italic THEN "italic"
  ELSE "normal"

\* headingSizes[level] for a base size, in hundredths of the base.
headingSizes(level, baseFontSize) ==
  (baseFontSize * (CASE level = 1 -> 200
                     [] level = 2 -> 150
                     [] level = 3 -> 117
                     [] level = 4 -> 100
                     [] level = 5 -> 83
                     [] OTHER     -> 67)) \div 100

applyStyle(sf, style, baseFontSize) ==
  setFontSize(setFont(sf, FontStyleOf(style)),
              IF style.heading # 0
              THEN headingSizes(style.heading, baseFontSize)
              ELSE baseFontSize)

(***************************************************************************)
(* calculateIndentation (lines 92-108), in quarters.                       *)
(***************************************************************************)
IsWs(c) == c = " "

IsDigit(c) == c \in {"0", "1", "2", "3", "4", "5", "6", "7", "8", "9"}

\* text.match(/^\s*/)[0].length
RECURSIVE LeadingWs(_)
LeadingWs(text) ==
  IF text # <<>> /\ IsWs(Head(text)) THEN 1 + LeadingWs(Tail(text)) ELSE 0

RECURSIVE LeadingDigits(_)
LeadingDigits(text) ==
  IF text # <<>> /\ IsDigit(Head(text)) THEN 1 + LeadingDigits(Tail(text)) ELSE 0

Drop(text, n) == SubSeq(text, n + 1, Len(text))

\* The length of the list marker ([-*] or \d+\.) text starts with, 0 if none.
MarkerLen(text) ==
  IF text = <<>> THEN 0
  ELSE IF Head(text) \in {"-", "*"} THEN 1
  ELSE LET d == LeadingDigits(text)
       IN  IF d > 0 /\ d < Len(text) /\ text[d + 1] = "." THEN d + 1 ELSE 0

\* text.match(/^(\s*(?:[-*]|\d+\.)\s+)/)
ListMatch(text) ==
  LET rest == Drop(text, LeadingWs(text))
      m    == MarkerLen(rest)
  IN  m > 0 /\ m < Len(rest) /\ IsWs(rest[m + 1])

\* text.trim().length > 0
NonBlank(text) == \E k \in 1..Len(text) : ~IsWs(text[k])

\* A list marker adding 0.75 instead of 0.25.
calculateIndentationListFirst(text) ==
  LET baseIndent == LeadingWs(text) \div 2
  IN  baseIndent + (IF ListMatch(text) THEN 3
                    ELSE IF baseIndent > 0 THEN 3
                    ELSE IF NonBlank(text) THEN 1
                    ELSE 0)

calculateIndentation(text) ==
  LET baseIndent == LeadingWs(text) \div 2
  IN  baseIndent + (IF ListMatch(text) THEN 1
                    ELSE IF baseIndent > 0 THEN 3
                    ELSE IF NonBlank(text) THEN 1
                    ELSE 0)

(***************************************************************************)
(* splitWordIfNeeded (lines 152-196).  A frame fr is the loop's state:     *)
(* [k, currentPart, result, sf], k the 1-based index of the next           *)
(* character.                                                              *)
(***************************************************************************)
\* lines 153-157: the locals, and applyStyle with the surface's own size.
SplitEnter(word, style, sf) ==
  [k |-> 1, currentPart |-> <<>>, result |-> <<>>,
   sf |-> applyStyle(sf, style, sf.fontSize)]

\* line 160: doc.getTextWidth(word) <= maxWidth
SplitFits(word, style, fr, maxWidth) == getTextWidth(fr.sf, word) <= maxWidth

\* line 171: testWidth > maxWidth * 0.95
TooWide(testWidth, maxWidth) == 100 * testWidth > 95 * maxWidth

\* lines 182-183 changed so that a character that does not fit is skipped.
SplitForceSkip(fr, char, style) ==
  [fr EXCEPT !.currentPart = <<>>]

\* lines 182-183: not even one character fits: emit it alone.
SplitForce(fr, char, style) ==
  [fr EXCEPT !.result = Append(@, TextSegment(<<char>>, style)),
             !.currentPart = <<>>]

\* lines 166-187: one iteration of the loop.
SplitIter(word, style, maxWidth, fr) ==
  LET char      == word[fr.k]
      testPart  == Append(fr.currentPart, char)
      testWidth == getTextWidth(fr.sf, testPart)
      m         == [fr EXCEPT !.k = @ + 1,
                              !.sf = Measure(@, testPart, FontStyleOf(style))]
  IN  IF TooWide(testWidth, maxWidth)
      THEN IF Len(fr.currentPart) >= 2
           THEN [m EXCEPT !.result = Append(@,
                            TextSegment(Append(fr.currentPart, "-"), style)),
                          !.currentPart = <<char>>]
           ELSE IF Len(fr.currentPart) > 0
           THEN [m EXCEPT !.result = Append(@,
                            TextSegment(fr.currentPart, style)),
                          !.currentPart = <<char>>]
           ELSE SplitForce(m, char, style)
      ELSE [m EXCEPT !.currentPart = testPart]

\* lines 190-195: the remaining characters.
SplitExit(style, fr) ==
  IF Len(fr.currentPart) > 0
  THEN [fr EXCEPT !.result = Append(@, TextSegment(fr.currentPart, style))]
  ELSE fr

RECURSIVE SplitLoop(_, _, _, _)
SplitLoop(word, style, maxWidth, fr) ==
  IF fr.k > Len(word) THEN SplitExit(style, fr)
  ELSE SplitLoop(word, style, maxWidth, SplitIter(word, style, maxWidth, fr))

\* The whole function: [parts, sf].
splitWordIfNeeded(word, style, sf, maxWidth) ==
  LET fr0 == SplitEnter(word, style, sf)
      fr1 == [fr0 EXCEPT !.sf = Measure(@, word, FontStyleOf(style))]
  IN  IF SplitFits(word, style, fr0, maxWidth)
      THEN [parts |-> <<TextSegment(word, style)>>, sf |-> fr1.sf]
      ELSE LET fr == SplitLoop(word, style, maxWidth, fr1)
           IN  [parts |-> fr.result, sf |-> fr.sf]

(***************************************************************************)
(* splitTextToLines (lines 198-317).  The accumulator acc is the closure's *)
(* state: [lines, currentLineSegments, currentLineWidth, sf]; lines holds  *)
(* the committed lines (the source's trailing empty lines[currentLine] is  *)
(* what the filter at line 281 removes).                                   *)
(***************************************************************************)
Gap == <<" ">>

\* segment.text.split(/\s+/): the pieces between whitespace runs, the empty
\* ones at the ends included.
RECURSIVE SplitWs(_, _, _, _)
SplitWs(text, k, cur, out) ==
  IF k > Len(text) THEN Append(out, cur)
  ELSE IF IsWs(text[k])
       THEN IF k > 1 /\ IsWs(text[k - 1])
            THEN SplitWs(text, k + 1, cur, out)
            ELSE SplitWs(text, k + 1, <<>>, Append(out, cur))
       ELSE SplitWs(text, k + 1, Append(cur, text[k]), out)

\* lines 214-222
commitLine(acc) ==
  IF Len(acc.currentLineSegments) > 0
  THEN [acc EXCEPT !.lines = Append(@, acc.currentLineSegments),
                   !.currentLineSegments = <<>>,
                   !.currentLineWidth = 0]
  ELSE acc

\* lines 261-268: each part after the first starts a line of its own.
RECURSIVE PlaceParts(_, _, _)
PlaceParts(acc, parts, index) ==
  IF index > Len(parts) THEN acc
  ELSE LET a    == IF index > 1 THEN commitLine(acc) ELSE acc
           part == parts[index]
       IN  PlaceParts(
             [a EXCEPT !.currentLineSegments = Append(@, part),
                       !.currentLineWidth = getTextWidth(a.sf, part.text),
                       !.sf = Measure(@, part.text, FontStyleOf(part.style))],
             parts, index + 1)

\* line 238: totalWidth <= availableWidth
FitsOnLine(totalWidth, availableWidth) == totalWidth <= availableWidth

\* lines 228-270: one word of a segment.
PlaceWord(acc, word, style, availableWidth, spaceWidth) ==
  IF word = <<>> THEN acc
  ELSE
    LET sf1       == applyStyle(acc.sf, style, acc.sf.fontSize)
        wordWidth == getTextWidth(sf1, word)
        a         == [acc EXCEPT !.sf = Measure(sf1, word, FontStyleOf(style))]
        totalWidth == a.currentLineWidth
                      + (IF Len(a.currentLineSegments) > 0 THEN spaceWidth ELSE 0)
                      + wordWidth
    IN  IF FitsOnLine(totalWidth, availableWidth)
        THEN LET g == IF Len(a.currentLineSegments) > 0
                      THEN [a EXCEPT
                              !.currentLineSegments = Append(@, TextSegment(Gap, style)),
                              !.currentLineWidth = @ + spaceWidth]
                      ELSE a
             IN  [g EXCEPT !.currentLineSegments = Append(@, TextSegment(word, style)),
                           !.currentLineWidth = @ + wordWidth]
        ELSE IF wordWidth <= availableWidth
        THEN LET c == commitLine(a)
             IN  [c EXCEPT !.currentLineSegments = Append(@, TextSegment(word, style)),
                           !.currentLineWidth = wordWidth]
        ELSE LET c == IF Len(a.currentLineSegments) > 0 THEN commitLine(a) ELSE a
                 r == splitWordIfNeeded(word, style, c.sf, availableWidth)
             IN  PlaceParts([c EXCEPT !.sf = r.sf], r.parts, 1)

RECURSIVE PlaceWords(_, _, _, _, _)
PlaceWords(acc, words, style, availableWidth, spaceWidth) ==
  IF words = <<>> THEN acc
  ELSE PlaceWords(PlaceWord(acc, Head(words), style, availableWidth, spaceWidth),
                  Tail(words), style, availableWidth, spaceWidth)

\* lines 224-272
RECURSIVE PlaceSegments(_, _, _, _)
PlaceSegments(acc, segments, availableWidth, spaceWidth) ==
  IF segments = <<>> THEN acc
  ELSE LET segment == Head(segments)
           words   == SplitWs(segment.text, 1, <<>>, <<>>)
       IN  PlaceSegments(
             PlaceWords(acc, words, segment.style, availableWidth, spaceWidth),
             Tail(segments), availableWidth, spaceWidth)

\* lines 283-287: the line measured again, each segment in its own style.
\* m is [lineWidth, sf].
RECURSIVE MeasureLine(_, _)
MeasureLine(m, line) ==
  IF line = <<>> THEN m
  ELSE LET segment == Head(line)
           sf1     == applyStyle(m.sf, segment.style, m.sf.fontSize)
       IN  MeasureLine(
             [lineWidth |-> m.lineWidth + getTextWidth(sf1, segment.text),
              sf |-> Measure(sf1, segment.text, FontStyleOf(segment.style))],
             Tail(line))

\* lines 304-309: the parts that still fit are kept, the others dropped.
\* b is [newLine, currentWidth, sf].
RECURSIVE RebuildParts(_, _, _)
RebuildParts(b, parts, availableWidth) ==
  IF parts = <<>> THEN b
  ELSE LET part == Head(parts)
           w    == getTextWidth(b.sf, part.text)
           sf1  == Measure(b.sf, part.text, FontStyleOf(part.style))
       IN  RebuildParts(
             IF b.currentWidth + w <= availableWidth
             THEN [newLine |-> Append(b.newLine, part),
                   currentWidth |-> b.currentWidth + w,
                   sf |-> Measure(sf1, part.text, FontStyleOf(part.style))]
             ELSE [b EXCEPT !.sf = sf1],
             Tail(parts), availableWidth)

\* lines 294-310
RECURSIVE RebuildLine(_, _, _, _)
RebuildLine(b, line, availableWidth, spaceWidth) ==
  IF line = <<>> THEN b
  ELSE LET segment == Head(line)
       IN  RebuildLine(
             IF segment.text = Gap
             THEN IF b.currentWidth + spaceWidth <= availableWidth
                  THEN [b EXCEPT !.newLine = Append(@, segment),
                                 !.currentWidth = @ + spaceWidth]
                  ELSE b
             ELSE LET r == splitWordIfNeeded(segment.text, segment.style, b.sf,
                                             availableWidth - b.currentWidth)
                  IN  RebuildParts([b EXCEPT !.sf = r.sf], r.parts, availableWidth),
             Tail(line), availableWidth, spaceWidth)

\* lines 282-316: one line of the post-pass: [line, sf].
VerifyLine(line, sf, availableWidth, spaceWidth) ==
  LET m == MeasureLine([lineWidth |-> 0, sf |-> sf], line)
  IN  IF m.lineWidth > availableWidth
      THEN LET b == RebuildLine([newLine |-> <<>>, currentWidth |-> 0, sf |-> m.sf],
                                line, availableWidth, spaceWidth)
           IN  [line |-> b.newLine, sf |-> b.sf]
      ELSE [line |-> line, sf |-> m.sf]

\* lines 280-316: .filter(...).map(...): [lines, sf].
RECURSIVE VerifyLines(_, _, _, _, _)
VerifyLines(done, lines, sf, availableWidth, spaceWidth) ==
  IF lines = <<>> THEN [lines |-> done, sf |-> sf]
  ELSE LET v == VerifyLine(Head(lines), sf, availableWidth, spaceWidth)
       IN  VerifyLines(Append(done, v.line), Tail(lines), v.sf,
                       availableWidth, spaceWidth)

\* line 211
AvailableWidth(sf, maxWidth, baseIndentation) ==
  maxWidth - baseIndentation * sf.fontSize

\* The whole function: [lines, sf].
splitTextToLines(sf, segments, maxWidth, baseIndentation) ==
  LET availableWidth == AvailableWidth(sf, maxWidth, baseIndentation)
      spaceWidth     == getTextWidth(sf, Gap)
      sf0            == Measure(sf, Gap, "spaceWidth")
      acc0           == [lines |-> <<>>, currentLineSegments |-> <<>>,
                         currentLineWidth |-> 0, sf |-> sf0]
      acc1           == PlaceSegments(acc0, segments, availableWidth, spaceWidth)
      acc2           == IF Len(acc1.currentLineSegments) > 0
                        THEN commitLine(acc1) ELSE acc1
      kept           == SelectSeq(acc2.lines, LAMBDA line : Len(line) > 0)
  IN  VerifyLines(<<>>, kept, acc2.sf, availableWidth, spaceWidth)

(***************************************************************************)
(* Fractions [n, d], d > 0, for x coordinates.                             *)
(***************************************************************************)
Frac(n, d) == IF n % d = 0 THEN [n |-> n \div d, d |-> 1] ELSE [n |-> n, d |-> d]

Whole(n) == [n |-> n, d |-> 1]

\* f + n / d
FracAdd(f, n, d) == Frac(f.n * d + n * f.d, f.d * d)

(***************************************************************************)
(* renderJustifiedLine (lines 110-150).  Each returns the surface.         *)
(***************************************************************************)
\* line 123: the advance after a segment in the fallback: the width of the
\* text, with a space appended unless the segment is a gap marker.
FallbackAdvanceText(text) == IF text = Gap THEN text ELSE text \o Gap

\* lines 119-124
RECURSIVE JustifyFallback(_, _, _, _)
JustifyFallback(sf, segments, currentX, y) ==
  IF segments = <<>> THEN sf
  ELSE LET segment == Head(segments)
           own     == FontStyleOf(segment.style)
           sf1     == applyStyle(sf, segment.style, sf.fontSize)
           sf2     == DrawText(sf1, segment.text, currentX, y, own)
           adv     == FallbackAdvanceText(segment.text)
       IN  JustifyFallback(Measure(sf2, adv, own), Tail(segments),
                           FracAdd(currentX, getTextWidth(sf2, adv), 1), y)

\* lines 130-133: m is [totalTextWidth, sf].
RECURSIVE JustifyTotal(_, _)
JustifyTotal(m, segments) ==
  IF segments = <<>> THEN m
  ELSE LET segment == Head(segments)
           sf1     == applyStyle(m.sf, segment.style, m.sf.fontSize)
       IN  JustifyTotal(
             [totalTextWidth |-> m.totalTextWidth + getTextWidth(sf1, segment.text),
              sf |-> Measure(sf1, segment.text, FontStyleOf(segment.style))],
             Tail(segments))

\* A variant that counts every segment as a gap: the leftover is then shared
\* over too many gaps.
NumberOfSpacesAll(segments) == Len(segments)

\* line 129
NumberOfSpaces(segments) ==
  Len(SelectSeq(segments, LAMBDA sg : sg.text = Gap))

\* lines 139-149: extraSpacePerGap is remainingSpace / numberOfSpaces.
RECURSIVE JustifyDraw(_, _, _, _, _, _, _)
JustifyDraw(sf, segments, index, currentX, y, remainingSpace, numberOfSpaces) ==
  IF index > Len(segments) THEN sf
  ELSE LET segment == segments[index]
           own     == FontStyleOf(segment.style)
           sf1     == applyStyle(sf, segment.style, sf.fontSize)
           sf2     == DrawText(sf1, segment.text, currentX, y, own)
           x1      == FracAdd(currentX, getTextWidth(sf2, segment.text), 1)
           x2      == IF segment.text = Gap /\ index < Len(segments)
                         /\ numberOfSpaces > 0
                      THEN FracAdd(x1, remainingSpace, numberOfSpaces)
                      ELSE x1
       IN  JustifyDraw(Measure(sf2, segment.text, own), segments, index + 1,
                       x2, y, remainingSpace, numberOfSpaces)

renderJustifiedLine(sf, segments, px, y, maxWidth, isLastLine) ==
  IF isLastLine \/ Len(segments) <= 1
  THEN JustifyFallback(sf, segments, Whole(px), y)
  ELSE LET m == JustifyTotal([totalTextWidth |-> 0, sf |-> sf], segments)
           numberOfSpaces == NumberOfSpaces(segments)
           remainingSpace == IF maxWidth - m.totalTextWidth > 0
                             THEN maxWidth - m.totalTextWidth ELSE 0
       IN  JustifyDraw(m.sf, segments, 1, Whole(px), y, remainingSpace,
                       numberOfSpaces)

(***************************************************************************)
(* The placement of one sub-line when align is not 'justify' (lines        *)
(* 385-401, 442-458, 495-511, 542-558).  geom is the block's geometry:     *)
(*   start        the x of the left path;                                  *)
(*   justifyWidth the width handed to renderJustifiedLine;                 *)
(*   centerFrom, centerWidth  centre: centerFrom + (centerWidth - w) / 2;  *)
(*   rightEdge    right: rightEdge - w.                                    *)
(***************************************************************************)
\* The first forEach: totalWidth, each segment in its own style at the base
\* size.  m is [totalWidth, sf].
RECURSIVE AlignTotal(_, _, _)
AlignTotal(m, segments, fontSize) ==
  IF segments = <<>> THEN m
  ELSE LET segment == Head(segments)
           sf1     == applyStyle(m.sf, segment.style, fontSize)
       IN  AlignTotal(
             [totalWidth |-> m.totalWidth + getTextWidth(sf1, segment.text),
              sf |-> Measure(sf1, segment.text, FontStyleOf(segment.style))],
             Tail(segments), fontSize)

\* The second forEach: the draws.
RECURSIVE AlignDraw(_, _, _, _, _)
AlignDraw(sf, segments, xOffset, y, fontSize) ==
  IF segments = <<>> THEN sf
  ELSE LET segment == Head(segments)
           own     == FontStyleOf(segment.style)
           sf1     == applyStyle(sf, segment.style, fontSize)
           sf2     == DrawText(sf1, segment.text, xOffset, y, own)
       IN  AlignDraw(Measure(sf2, segment.text, own), Tail(segments),
                     FracAdd(xOffset, getTextWidth(sf2, segment.text), 1),
                     y, fontSize)

renderAlignedLine(sf, segments, geom, y, align, fontSize) ==
  LET m       == AlignTotal([totalWidth |-> 0, sf |-> sf], segments, fontSize)
      xOffset == IF align = "center"
                 THEN Frac(2 * geom.centerFrom + geom.centerWidth - m.totalWidth, 2)
                 ELSE IF align = "right"
                 THEN Whole(geom.rightEdge - m.totalWidth)
                 ELSE Whole(geom.start)
  IN  AlignDraw(m.sf, segments, xOffset, y, fontSize)

\* One sub-line of a block: lines 375-402 and their three copies.
renderLine(sf, segments, geom, y, align, fontSize, isLastLine) ==
  IF align = "justify"
  THEN renderJustifiedLine(sf, segments, geom.start, y, geom.justifyWidth,
                           isLastLine)
  ELSE renderAlignedLine(sf, segments, geom, y, align, fontSize)

(***************************************************************************)
(* Runs of one function.  The variables of parsePDFMarkdown stay idle.     *)
(***************************************************************************)
BaseFontSize == 1000

IdleDriver ==
  /\ textLines = <<>>
  /\ options = None
  /\ x = 0
  /\ maxY = 0
  /\ currentY = 0
  /\ i = 0
  /\ ret = None

IdleSurface ==
  /\ font = "mono"
  /\ doc = [fontStyle |-> "normal", fontSize |-> BaseFontSize]
  /\ calls = <<>>

Styles == {TextStyle(b, it) : b \in BOOLEAN, it \in BOOLEAN}

(***************************************************************************)
(* SpecTok: parseInlineMarkdown applied to every text of at most           *)
(* MaxTextLen characters over TokChars, and to the text of the example.    *)
(***************************************************************************)
MaxTextLen == 4

TokChars == {"a", " ", "*", "_"}

ExampleText ==
  <<"*", "*", "b", "o", "l", "d", "*", "*", " ", "a", "n", "d", " ",
    "*", "i", "t", "a", "l", "i", "c", "*">>

TokTexts == SeqsUpTo(TokChars, MaxTextLen) \cup {ExampleText}

InitTok ==
  /\ call \in {[fn |-> "parseInlineMarkdown", text |-> t] : t \in TokTexts}
  /\ frame = None
  /\ result = None
  /\ pc = "call"
  /\ IdleSurface
  /\ IdleDriver

TokCall ==
  /\ pc = "call"
  /\ call.fn = "parseInlineMarkdown"
  /\ result' = parseInlineMarkdown(call.text)
  /\ pc' = "return"
  /\ UNCHANGED <<font, doc, calls, call, frame>>
  /\ UNCHANGED driverVars

NextTok == TokCall

SpecTok == InitTok /\ [][NextTok]_vars

\* The toggle state at position p of text, from the maximal runs of one
\* marker character before p: a run of n markers is n \div 2 doubled and
\* n % 2 single markers.
RunStartsAt(text, k) ==
  IsMarker(text[k]) /\ (k = 1 \/ text[k - 1] # text[k])

RECURSIVE RunLen(_, _)
RunLen(text, k) ==
  IF k < Len(text) /\ text[k + 1] = text[k] THEN 1 + RunLen(text, k + 1) ELSE 1

RunsBefore(text, p) == {k \in 1..(p - 1) : RunStartsAt(text, k)}

RECURSIVE SumOver(_, _, _)
SumOver(text, ks, d) ==
  IF ks = {} THEN 0
  ELSE LET k == CHOOSE j \in ks : TRUE
           n == RunLen(text, k)
       IN  (IF d THEN n \div 2 ELSE n % 2) + SumOver(text, ks \ {k}, d)

BoldAt(text, p) == SumOver(text, RunsBefore(text, p), TRUE) % 2 = 1

ItalicAt(text, p) == SumOver(text, RunsBefore(text, p), FALSE) % 2 = 1

\* The non-marker characters of text, each with the style in effect there.
RECURSIVE StyledChars(_, _)
StyledChars(text, p) ==
  IF p > Len(text) THEN <<>>
  ELSE IF IsMarker(text[p]) THEN StyledChars(text, p + 1)
  ELSE <<[c |-> text[p], bold |-> BoldAt(text, p), italic |-> ItalicAt(text, p)]>>
       \o StyledChars(text, p + 1)

\* The characters of the segments, each with its segment's flags.
RECURSIVE SegmentChars(_)
SegmentChars(segments) ==
  IF segments = <<>> THEN <<>>
  ELSE LET s == Head(segments)
       IN  [k \in 1..Len(s.text) |->
              [c |-> s.text[k], bold |-> s.style.bold, italic |-> s.style.italic]]
           \o SegmentChars(Tail(segments))

ExampleSegments ==
  << TextSegment(<<"b", "o", "l", "d">>, TextStyle(TRUE, FALSE)),
     TextSegment(<<" ", "a", "n", "d", " ">>, TextStyle(FALSE, FALSE)),
     TextSegment(<<"i", "t", "a", "l", "i", "c">>, TextStyle(FALSE, TRUE)) >>

\* C3: parseInlineMarkdown keeps every non-marker character exactly once and
\* in order, each in a segment whose bold/italic flags are the toggle state at
\* the character's position; no segment is empty; the example text gives
\* exactly its three segments.
C3_TokenizerKeepsTextAndStyle ==
  pc = "return" /\ call.fn = "parseInlineMarkdown" =>
    /\ SegmentChars(result) = StyledChars(call.text, 1)
    /\ \A k \in 1..Len(result) : result[k].text # <<>>
    /\ call.text = ExampleText => result = ExampleSegments

C3_Witness ==
  /\ pc = "return"
  /\ call.fn = "parseInlineMarkdown"
  /\ call.text = ExampleText
  /\ Len(result) = 3

(***************************************************************************)
(* SpecIndent: calculateIndentation applied to lines of 0..MaxDepth        *)
(* leading spaces followed by a list item, plain text or a near miss.      *)
(***************************************************************************)
MaxDepth == 5

ListBodies ==
  { <<"-", " ", "i", "t", "e", "m">>,
    <<"*", " ", "i", "t", "e", "m">>,
    <<"1", ".", " ", "i", "t", "e", "m">>,
    <<"1", "2", ".", " ", " ", "i", "t", "e", "m">> }

PlainBodies ==
  { <<"i", "t", "e", "m">>,
    <<"-", "i", "t", "e", "m">>,
    <<"1", ".", "i", "t", "e", "m">>,
    <<"1", " ", "i", "t", "e", "m">>,
    <<"#", " ", "i", "t", "e", "m">> }

Spaces(n) == [k \in 1..n |-> " "]

InitIndent ==
  /\ \E d \in 0..MaxDepth :
       \/ \E b \in ListBodies :
            call = [fn |-> "calculateIndentation", text |-> Spaces(d) \o b,
                    depth |-> d, kind |-> "list"]
       \/ \E b \in PlainBodies :
            call = [fn |-> "calculateIndentation", text |-> Spaces(d) \o b,
                    depth |-> d, kind |-> "plain"]
       \/ call = [fn |-> "calculateIndentation", text |-> Spaces(d),
                  depth |-> d, kind |-> "blank"]
  /\ frame = None
  /\ result = None
  /\ pc = "call"
  /\ IdleSurface
  /\ IdleDriver

IndentCall ==
  /\ pc = "call"
  /\ call.fn = "calculateIndentation"
  /\ result' = calculateIndentation(call.text)
  /\ pc' = "return"
  /\ UNCHANGED <<font, doc, calls, call, frame>>
  /\ UNCHANGED driverVars

NextIndent == IndentCall

SpecIndent == InitIndent /\ [][NextIndent]_vars

ItemText == <<"i", "t", "e", "m">>

\* C6 as stated: a list line is indented strictly more than plain text with
\* the same leading whitespace.
C6_ListStrictlyGreater ==
  pc = "return" /\ call.fn = "calculateIndentation" /\ call.kind = "list" =>
    result > calculateIndentation(Spaces(call.depth) \o ItemText)

\* C6 (amended): a list line is never indented more than plain text with the
\* same leading whitespace: it gets the same baseIndentation (0.25 above the
\* whitespace part) when there are fewer than two leading whitespace
\* characters, as "- item" and "item" do, and 0.5 less otherwise.
C6_ListNotGreater ==
  pc = "return" /\ call.fn = "calculateIndentation" /\ call.kind = "list" =>
    /\ result = (call.depth \div 2) + 1
    /\ \A b \in PlainBodies :
         LET plain == calculateIndentation(Spaces(call.depth) \o b)
         IN  IF call.depth < 2 THEN result = plain ELSE result + 2 = plain

C6_Witness ==
  /\ pc = "return"
  /\ call.fn = "calculateIndentation"
  /\ call.text = <<"-", " ", "i", "t", "e", "m">>
  /\ result = 1

(***************************************************************************)
(* SpecSplit: splitWordIfNeeded run one loop iteration at a time, on every *)
(* word of 1..MaxWordLen characters over WordChars, in every style, under  *)
(* every measure function, from any surface style, for widths from below   *)
(* zero to wider than the word.  JavaScript runs the loop to its end, so   *)
(* the next step is always taken (weak fairness).                          *)
(***************************************************************************)
MaxWordLen == 3

WordChars == {"a", "b"}

Words == SeqsUpTo(WordChars, MaxWordLen) \ {<<>>}

SplitWidths == {-4000, 0, 2000, 4000, 8000, 10000, 13000, 16000}

InitSplit ==
  /\ call \in {[fn |-> "splitWordIfNeeded", word |-> w, style |-> st,
                maxWidth |-> mw] :
               w \in Words, st \in Styles, mw \in SplitWidths}
  /\ frame = [k |-> 0, currentPart |-> <<>>, result |-> <<>>]
  /\ result = <<>>
  /\ pc = "call"
  /\ font \in Fonts
  /\ doc \in {[fontStyle |-> fs, fontSize |-> BaseFontSize] :
              fs \in {"normal", "bold"}}
  /\ calls = <<>>
  /\ IdleDriver

FrameOf(fr) ==
  [k |-> fr.k, currentPart |-> fr.currentPart, result |-> fr.result]

WithSurface(fr, d, log) ==
  [k |-> fr.k, currentPart |-> fr.currentPart, result |-> fr.result,
   sf |-> Surface(d, log)]

\* lines 153-162: the word fits and is returned whole.
SplitCallFits ==
  /\ pc = "call"
  /\ call.fn = "splitWordIfNeeded"
  /\ LET r == splitWordIfNeeded(call.word, call.style, Surface(doc, calls),
                                call.maxWidth)
         fr == SplitEnter(call.word, call.style, Surface(doc, calls))
     IN  /\ SplitFits(call.word, call.style, fr, call.maxWidth)
         /\ result' = r.parts
         /\ doc' = DocOf(r.sf)
         /\ calls' = r.sf.log
  /\ pc' = "return"
  /\ UNCHANGED <<font, call, frame>>
  /\ UNCHANGED driverVars

\* lines 153-165: the word does not fit and the loop is entered.
SplitCallLoop ==
  /\ pc = "call"
  /\ call.fn = "splitWordIfNeeded"
  /\ LET fr0 == SplitEnter(call.word, call.style, Surface(doc, calls))
         fr1 == [fr0 EXCEPT !.sf = Measure(@, call.word, FontStyleOf(call.style))]
     IN  /\ ~SplitFits(call.word, call.style, fr0, call.maxWidth)
         /\ frame' = FrameOf(fr1)
         /\ doc' = DocOf(fr1.sf)
         /\ calls' = fr1.sf.log
  /\ pc' = "loop"
  /\ UNCHANGED <<font, call, result>>
  /\ UNCHANGED driverVars

\* lines 165-188: one iteration.
SplitStep ==
  /\ pc = "loop"
  /\ frame.k <= Len(call.word)
  /\ LET fr == SplitIter(call.word, call.style, call.maxWidth,
                         WithSurface(frame, doc, calls))
     IN  /\ frame' = FrameOf(fr)
         /\ doc' = DocOf(fr.sf)
         /\ calls' = fr.sf.log
  /\ UNCHANGED <<font, call, result, pc>>
  /\ UNCHANGED driverVars

\* lines 190-195: the loop is over.
SplitReturn ==
  /\ pc = "loop"
  /\ frame.k > Len(call.word)
  /\ result' = SplitExit(call.style, WithSurface(frame, doc, calls)).result
  /\ pc' = "return"
  /\ UNCHANGED <<font, doc, calls, call, frame>>
  /\ UNCHANGED driverVars

NextSplit == SplitCallFits \/ SplitCallLoop \/ SplitStep \/ SplitReturn

SpecSplit == InitSplit /\ [][NextSplit]_vars /\ WF_vars(NextSplit)

SplitResultOk ==
  /\ Len(result) >= 1
  /\ \A k \in 1..Len(result) :
       result[k].text # <<>> /\ result[k].style = call.style

\* C7: splitWordIfNeeded returns, for every non-empty word, measure function
\* and maxWidth (below one character's width and <= 0 included), and what it
\* returns is at least one fragment, each with non-empty text and the word's
\* style.
C7_SplitTerminatesNonEmpty ==
  /\ [](pc = "return" => SplitResultOk)
  /\ <>(pc = "return")

\* A two-character word under maxWidth <= 0: both characters are emitted by
\* the forced branch.
C7_Witness ==
  /\ pc = "return"
  /\ call.fn = "splitWordIfNeeded"
  /\ call.maxWidth <= 0
  /\ Len(call.word) = 2
  /\ Len(result) = 2

(***************************************************************************)
(* SpecLines: parseInlineMarkdown followed by splitTextToLines on the      *)
(* content of one logical line: 1..MaxRuns style runs, each a piece of     *)
(* text plain or wrapped in ** **, joined with or without a space, under   *)
(* every measure function, from a surface left normal or bold, for widths  *)
(* from below one character to wider than the content.                     *)
(***************************************************************************)
MaxRuns == 2

Pieces == { <<"a">>, <<"a", "b">>, <<"a", "a", "a", "a">>, <<"a", " ", "b">> }

Bold(t) == <<"*", "*">> \o t \o <<"*", "*">>

Runs == Pieces \cup {Bold(t) : t \in Pieces}

RECURSIVE Contents(_)
Contents(n) ==
  IF n = 1 THEN Runs
  ELSE LET shorter == Contents(n - 1)
       IN  shorter \cup {c \o sep \o r : c \in shorter, sep \in {<<>>, <<" ">>},
                                         r \in Runs}

LineWidths == {3000, 10000, 12000, 20000, 48000}

InitLines ==
  /\ call \in {[fn |-> "splitTextToLines", content |-> c, maxWidth |-> mw,
                baseIndentation |-> q] :
               c \in Contents(MaxRuns), mw \in LineWidths, q \in {0, 1}}
  /\ frame = None
  /\ result = <<>>
  /\ pc = "call"
  /\ font \in Fonts
  /\ doc \in {[fontStyle |-> fs, fontSize |-> BaseFontSize] :
              fs \in {"normal", "bold"}}
  /\ calls = <<>>
  /\ IdleDriver

LinesCall ==
  /\ pc = "call"
  /\ call.fn = "splitTextToLines"
  /\ LET r == splitTextToLines(Surface(doc, calls),
                               parseInlineMarkdown(call.content),
                               call.maxWidth, call.baseIndentation)
     IN  /\ result' = r.lines
         /\ doc' = DocOf(r.sf)
         /\ calls' = r.sf.log
  /\ pc' = "return"
  /\ UNCHANGED <<font, call, frame>>
  /\ UNCHANGED driverVars

NextLines == LinesCall

SpecLines == InitLines /\ [][NextLines]_vars

\* The width of a segment measured under its own style, at the size the
\* surface has.
OwnWidth(segment) ==
  4 * AdvanceSum(font, FontStyleOf(segment.style), segment.text) * doc.fontSize

RECURSIVE LineOwnWidth(_)
LineOwnWidth(line) ==
  IF line = <<>> THEN 0 ELSE OwnWidth(Head(line)) + LineOwnWidth(Tail(line))

CallAvailableWidth == call.maxWidth - call.baseIndentation * doc.fontSize

\* C1: every returned line measures, each segment under its own style and the
\* gap markers included, at most the available width, unless it is a single
\* one-character fragment that is itself wider.
C1_LinesWithinWidth ==
  pc = "return" /\ call.fn = "splitTextToLines" =>
    \A k \in 1..Len(result) :
      \/ LineOwnWidth(result[k]) <= CallAvailableWidth
      \/ /\ Len(result[k]) = 1
         /\ Len(result[k][1].text) = 1
         /\ OwnWidth(result[k][1]) > CallAvailableWidth

StripChars(text, cs) == SelectSeq(text, LAMBDA c : c \notin cs)

RECURSIVE CollapseWs(_, _)
CollapseWs(text, k) ==
  IF k > Len(text) THEN <<>>
  ELSE IF IsWs(text[k]) /\ k > 1 /\ IsWs(text[k - 1]) THEN CollapseWs(text, k + 1)
  ELSE <<text[k]>> \o CollapseWs(text, k + 1)

\* The content with the markers stripped and whitespace runs collapsed.
ExpectedText(content) == CollapseWs(StripChars(content, {"*", "_"}), 1)

\* The text of the returned lines: the segments' texts without the hyphens
\* (the contents hold none), a line break written "\n".
RECURSIVE LineText(_)
LineText(line) ==
  IF line = <<>> THEN <<>>
  ELSE StripChars(Head(line).text, {"-"}) \o LineText(Tail(line))

RECURSIVE LinesText(_, _)
LinesText(lines, k) ==
  IF k > Len(lines) THEN <<>>
  ELSE (IF k > 1 THEN <<"\n">> ELSE <<>>) \o LineText(lines[k])
       \o LinesText(lines, k + 1)

\* out reconstructs expected when each line break is read as a single space
\* (a break between words) or as nothing (a break inside a split word).
RECURSIVE Reconstructs(_, _)
Reconstructs(out, expected) ==
  IF out = <<>> THEN expected = <<>>
  ELSE IF Head(out) = "\n"
       THEN \/ Reconstructs(Tail(out), expected)
            \/ /\ expected # <<>>
               /\ Head(expected) = " "
               /\ Reconstructs(Tail(out), Tail(expected))
       ELSE /\ expected # <<>>
            /\ Head(expected) = Head(out)
            /\ Reconstructs(Tail(out), Tail(expected))

\* C2: the returned lines, read in order with the forced-split hyphens
\* removed, reconstruct the marker-stripped, whitespace-collapsed content.
C2_ContentPreserved ==
  pc = "return" /\ call.fn = "splitTextToLines" =>
    Reconstructs(LinesText(result, 1), ExpectedText(call.content))

\* A line of the shape word (gap word)*: not empty, a non-gap segment first and
\* last, and no two gap markers next to each other.
WordGapShape(line) ==
  /\ Len(line) > 0
  /\ line[1].text # Gap
  /\ line[Len(line)].text # Gap
  /\ \A k \in 1..(Len(line) - 1) : ~(line[k].text = Gap /\ line[k + 1].text = Gap)

\* C11: every line splitTextToLines returns holds at least one non-gap
\* segment, neither starts nor ends with a gap marker, and has a non-gap
\* segment on both sides of every gap marker.
C11_LinesAreWordGapWord ==
  pc = "return" /\ call.fn = "splitTextToLines" =>
    \A k \in 1..Len(result) : WordGapShape(result[k])


(***************************************************************************)
(* SpecJust: renderJustifiedLine on each line splitTextToLines returns for *)
(* a paragraph's content, called as parsePDFMarkdown calls it (lines       *)
(* 533-540): from the surface splitTextToLines leaves, with the available  *)
(* width and with isLastLine true for the last returned line only.         *)
(***************************************************************************)
\* 20001 and 22000 leave a leftover that two gaps share (the first a
\* fractional share).
JustWidths == {12000, 20000, 20001, 22000, 48000}

JustCalls(content, mw, px) ==
  LET sf0 == [fontStyle |-> "normal", fontSize |-> BaseFontSize, log |-> <<>>]
      r   == splitTextToLines(sf0, parseInlineMarkdown(content), mw, 0)
  IN  {[fn |-> "renderJustifiedLine", segments |-> r.lines[k], x |-> px,
        y |-> 10, maxWidth |-> mw, isLastLine |-> (k = Len(r.lines)),
        doc |-> DocOf(r.sf)] : k \in 1..Len(r.lines)}

InitJust ==
  /\ font \in Fonts
  /\ call \in UNION {JustCalls(c, mw, px) :
                     c \in Contents(MaxRuns), mw \in JustWidths, px \in {0, 5000}}
  /\ doc = call.doc
  /\ calls = <<>>
  /\ frame = None
  /\ result = None
  /\ pc = "call"
  /\ IdleDriver

JustCall ==
  /\ pc = "call"
  /\ call.fn = "renderJustifiedLine"
  /\ LET sf == renderJustifiedLine(Surface(doc, calls), call.segments, call.x,
                                   call.y, call.maxWidth, call.isLastLine)
     IN  /\ doc' = DocOf(sf)
         /\ calls' = sf.log
  /\ pc' = "return"
  /\ UNCHANGED <<font, call, frame, result>>
  /\ UNCHANGED driverVars

NextJust == JustCall

SpecJust == InitJust /\ [][NextJust]_vars

\* The doc.text calls of a log: (text, x, y) and the surface style of each.
DrawsOf(log) == SelectSeq(log, LAMBDA c : c.op = "text")

\* What the align 'left' path of a paragraph (lines 541-559) draws for the
\* line of the call, from the same surface.
LeftDraws ==
  DrawsOf(renderAlignedLine(Surface(call.doc, <<>>), call.segments,
                            [start |-> call.x, justifyWidth |-> call.maxWidth,
                             centerFrom |-> call.x, centerWidth |-> call.maxWidth,
                             rightEdge |-> call.x + call.maxWidth],
                            call.y, "left", BaseFontSize).log)

\* C4: under 'justify' a single-segment line, or the last line of its block,
\* is drawn with the same doc.text calls, at the same places and in the same
\* surface style, as under 'left'.
C4_JustifyFallbackIsLeft ==
  pc = "return" /\ call.fn = "renderJustifiedLine"
    /\ (call.isLastLine \/ Len(call.segments) <= 1) =>
      DrawsOf(calls) = LeftDraws

\* The line of the call is one renderJustifiedLine spreads: not the last of
\* its block, more than one segment, a gap marker among them, a non-gap
\* segment last, and a natural width of at most the available width.
GapIndices(segments) == {k \in 1..Len(segments) : segments[k].text = Gap}

JustifySpreads ==
  /\ call.fn = "renderJustifiedLine"
  /\ ~call.isLastLine
  /\ Len(call.segments) > 1
  /\ GapIndices(call.segments) # {}
  /\ call.segments[Len(call.segments)].text # Gap
  /\ LineOwnWidth(call.segments) <= call.maxWidth

\* The leftover width of the line of the call.
Leftover == call.maxWidth - LineOwnWidth(call.segments)

\* b.x - a.x - w = n / d, for two draws a and b, in exact arithmetic.
AdvanceBeyond(a, b, w, n, d) ==
  d * (b.x * a.xden - a.x * b.xden - w * a.xden * b.xden) = n * a.xden * b.xden

\* C12: a line renderJustifiedLine spreads is drawn segment by segment in
\* order; after a gap marker the pen advances by the gap's width plus the
\* leftover divided by the number of gap markers, after any other segment by
\* its width alone; the x never decreases and the last segment ends at
\* x + the available width.
C12_JustifySpreadsLeftover ==
  pc = "return" /\ JustifySpreads =>
    LET segments == call.segments
        draws    == DrawsOf(calls)
        last     == Len(segments)
    IN  /\ Len(draws) = last
        /\ \A k \in 1..last : draws[k].text = segments[k].text
        /\ \A k \in 1..(last - 1) :
             /\ draws[k + 1].x * draws[k].xden >= draws[k].x * draws[k + 1].xden
             /\ IF k \in GapIndices(segments)
                THEN AdvanceBeyond(draws[k], draws[k + 1], OwnWidth(segments[k]),
                                   Leftover, Cardinality(GapIndices(segments)))
                ELSE AdvanceBeyond(draws[k], draws[k + 1], OwnWidth(segments[k]),
                                   0, 1)
        /\ draws[last].x + OwnWidth(segments[last]) * draws[last].xden
             = (call.x + call.maxWidth) * draws[last].xden

\* A spread line with two gaps sharing a leftover that does not divide evenly
\* has been drawn.
C12_Witness ==
  /\ pc = "return"
  /\ JustifySpreads
  /\ Cardinality(GapIndices(call.segments)) = 2
  /\ Leftover % 2 = 1
  /\ Len(DrawsOf(calls)) = Len(call.segments)
  /\ \E k \in 1..Len(calls) : calls[k].op = "text" /\ calls[k].xden = 2

(***************************************************************************)
(* parsePDFMarkdown (lines 319-567).                                       *)
(***************************************************************************)
\* line.trim()
RECURSIVE TrimEnd(_)
TrimEnd(text) ==
  IF text # <<>> /\ IsWs(text[Len(text)])
  THEN TrimEnd(SubSeq(text, 1, Len(text) - 1)) ELSE text

Trim(text) == TrimEnd(Drop(text, LeadingWs(text)))

RECURSIVE LeadingHashes(_)
LeadingHashes(text) ==
  IF text # <<>> /\ Head(text) = "#" THEN 1 + LeadingHashes(Tail(text)) ELSE 0

\* What follows a marker of m characters: \s+(.+)$ matched or not, and the
\* (.+) group.  The line is trimmed, so the group ends at the line's end.
AfterMarker(line, m) ==
  LET rest == Drop(line, m)
      ws   == LeadingWs(rest)
  IN  [matched |-> ws > 0 /\ ws < Len(rest), content |-> Drop(rest, ws)]

\* line 356: /^(#{1,6})\s+(.+)$/: [matched, level, content]
headerMatch(line) ==
  LET n == LeadingHashes(line)
      a == AfterMarker(line, n)
  IN  [matched |-> n >= 1 /\ n <= 6 /\ a.matched, level |-> n,
       content |-> a.content]

\* line 414: /^(\d+)\.\s+(.+)$/: [matched, marker, content]
orderedListMatch(line) ==
  LET d == LeadingDigits(line)
      a == AfterMarker(line, d + 1)
  IN  [matched |-> d > 0 /\ d < Len(line) /\ line[d + 1] = "." /\ a.matched,
       marker |-> SubSeq(line, 1, d) \o <<".">>, content |-> a.content]

\* line 468: /^[-*]\s+(.+)$/: [matched, marker, content]
unorderedListMatch(line) ==
  LET a == AfterMarker(line, 1)
  IN  [matched |-> line # <<>> /\ Head(line) \in {"-", "*"} /\ a.matched,
       marker |-> <<"bullet">>, content |-> a.content]

\* The kind of block a trimmed line is, by the order of the tests.
BlockKind(line) ==
  IF line = <<>> THEN "blank"
  ELSE IF headerMatch(line).matched THEN "heading"
  ELSE IF orderedListMatch(line).matched THEN "ordered"
  ELSE IF unorderedListMatch(line).matched THEN "unordered"
  ELSE "paragraph"

\* line 334: lineHeight = fontSize * 0.352778 * options.lineHeight: a positive
\* number; options.lineHeight is taken in the unit that makes it the product.
LineHeight == options.lineHeight

\* line 364: options.fontSize * (2.5 - level * 0.3)
HeadingFontSize(level) == (options.fontSize * (25 - 3 * level)) \div 10

ListOffset == 2000

\* The overflow test of a sub-line left out.
SubLineOverflowsNever(y) == FALSE

\* The overflow test of a sub-line (lines 371, 428, 481, 528).
SubLineOverflows(y) == y > maxY

\* lines.forEach (lines 370-407 and its copies).  st is [sf, currentY].  A
\* sub-line skipped for overflow leaves a "skip" entry in the log: it is no
\* call on the surface, only the record that the callback returned early.
RECURSIVE RenderLines(_, _, _, _)
RenderLines(st, lines, lineIndex, geom) ==
  IF lineIndex > Len(lines) THEN st
  ELSE IF SubLineOverflows(st.currentY)
  THEN RenderLines(
         [st EXCEPT !.sf.log = Append(@, [op |-> "skip", text |-> <<>>,
                                x |-> 0, xden |-> 1, y |-> st.currentY,
                                fontStyle |-> st.sf.fontStyle,
                                fontSize |-> st.sf.fontSize, own |-> "skip"])],
         lines, lineIndex + 1, geom)
  ELSE LET sf1 == renderLine(st.sf, lines[lineIndex], geom, st.currentY,
                             options.align, options.fontSize,
                             lineIndex = Len(lines))
       IN  RenderLines(
             [sf |-> sf1,
              currentY |-> IF lineIndex < Len(lines)
                           THEN st.currentY + LineHeight ELSE st.currentY],
             lines, lineIndex + 1, geom)

\* The geometry of a heading or a paragraph (lines 373-394, 530-551).
FlowGeom(baseIndentation) ==
  [start        |-> x + baseIndentation * options.fontSize,
   justifyWidth |-> options.maxWidth - baseIndentation * options.fontSize,
   centerFrom   |-> x,
   centerWidth  |-> options.maxWidth,
   rightEdge    |-> x + options.maxWidth]

\* The geometry of a list item (lines 430-451, 483-504).
ListGeom(listIndent) ==
  [start        |-> x + listIndent + ListOffset,
   justifyWidth |-> options.maxWidth - (listIndent + ListOffset),
   centerFrom   |-> x + listIndent + ListOffset,
   centerWidth  |-> options.maxWidth - listIndent - ListOffset,
   rightEdge    |-> x + options.maxWidth]

\* lines 356-412, after the advance of currentY: [sf, currentY]
headingBlock(sf, m, baseIndentation, y) ==
  LET sf1 == setFont(setFontSize(sf, HeadingFontSize(m.level)), "bold")
      r   == splitTextToLines(sf1, parseInlineMarkdown(m.content),
                              options.maxWidth, baseIndentation)
      st  == RenderLines([sf |-> r.sf, currentY |-> y], r.lines, 1,
                         FlowGeom(baseIndentation))
  IN  [st EXCEPT !.sf = setFont(setFontSize(@, options.fontSize), "normal")]

\* lines 414-466 and 468-519, after the advance of currentY.
listBlock(sf, m, baseIndentation, y) ==
  LET listIndent == baseIndentation * options.fontSize
      sf1 == DrawText(sf, m.marker, Whole(x + listIndent), y, "marker")
      r   == splitTextToLines(sf1, parseInlineMarkdown(m.content),
                              options.maxWidth - (listIndent + ListOffset),
                              baseIndentation)
  IN  RenderLines([sf |-> r.sf, currentY |-> y], r.lines, 1,
                  ListGeom(listIndent))

\* lines 521-564, after the advance of currentY.
paragraphBlock(sf, line, baseIndentation, y) ==
  LET r == splitTextToLines(sf, parseInlineMarkdown(line), options.maxWidth,
                            baseIndentation)
  IN  RenderLines([sf |-> r.sf, currentY |-> y], r.lines, 1,
                  FlowGeom(baseIndentation))

\* The log entries of one block, each with the block it belongs to.
Tagged(log, blk, kind, level) ==
  [k \in 1..Len(log) |->
     [op |-> log[k].op, text |-> log[k].text, x |-> log[k].x,
      xden |-> log[k].xden, y |-> log[k].y, fontStyle |-> log[k].fontStyle,
      fontSize |-> log[k].fontSize, own |-> log[k].own,
      blk |-> blk, kind |-> kind, level |-> level]]

(***************************************************************************)
(* Spec: parsePDFMarkdown, one step per iteration of its loop, on every    *)
(* text of at most MaxBlocks lines of DocLines.  The text handed in is     *)
(* already split: "---" and runs of line breaks are collapsed at lines     *)
(* 328-329, so an empty line cannot stand between two others, while a      *)
(* whitespace-only line can; the empty text is textLines = <<>>.           *)
(***************************************************************************)
MaxBlocks == 3

DocLines ==
  { <<"#", " ", "T", "i", "t", "l", "e">>,
    <<"S", "e", "c", "o", "n", "d", " ", "p", "a", "r", "a", "g", "r", "a", "p", "h">>,
    <<"*", "*", "a", " ", "b", "*", "*">>,
    <<"1", ".", " ", "a", " ", "*", "*", "b", "*", "*">>,
    <<"-", " ", "a", " ", "b">>,
    <<" ">> }

Aligns == {"left", "center", "right", "justify"}

PageBottoms == {12, 15, 20, 100}

Init ==
  /\ font \in {"mono", "heavy"}
  /\ doc = [fontStyle |-> "italic", fontSize |-> 1200]
  /\ calls = <<>>
  /\ textLines \in SeqsUpTo(DocLines, MaxBlocks)
  /\ options \in [maxWidth : {40000, 400000}, align : Aligns,
                  fontSize : {BaseFontSize}, lineHeight : {10}]
  /\ x = 4000
  /\ maxY \in PageBottoms
  /\ currentY \in {0, 5}
  /\ i = 0
  /\ ret = None
  /\ call = [fn |-> "parsePDFMarkdown", y |-> currentY]
  /\ frame = None
  /\ result = None
  /\ pc = "start"

harnessVars == <<call, frame, result>>

\* line 326: if (!text) return y
ReturnEmpty ==
  /\ pc = "start"
  /\ textLines = <<>>
  /\ ret' = currentY
  /\ pc' = "done"
  /\ UNCHANGED <<font, doc, calls, textLines, options, x, maxY, currentY, i>>
  /\ UNCHANGED harnessVars

\* lines 328-340
Start ==
  /\ pc = "start"
  /\ textLines # <<>>
  /\ doc' = [fontStyle |-> "normal", fontSize |-> options.fontSize]
  /\ i' = 1
  /\ pc' = "loop"
  /\ UNCHANGED <<font, calls, textLines, options, x, maxY, currentY, ret>>
  /\ UNCHANGED harnessVars

AtLine(kind) ==
  /\ pc = "loop"
  /\ i <= Len(textLines)
  /\ BlockKind(Trim(textLines[i])) = kind

\* lines 347-350
BlankLine ==
  /\ AtLine("blank")
  /\ currentY' = currentY + LineHeight
  /\ i' = i + 1
  /\ UNCHANGED <<font, doc, calls, textLines, options, x, maxY, ret, pc>>
  /\ UNCHANGED harnessVars

\* line 352: currentY + lineHeight > maxY
PageOverflows(y) == y + LineHeight > maxY

\* lines 352-354
PageFull ==
  /\ pc = "loop"
  /\ i <= Len(textLines)
  /\ Trim(textLines[i]) # <<>>
  /\ PageOverflows(currentY)
  /\ ret' = currentY
  /\ pc' = "done"
  /\ UNCHANGED <<font, doc, calls, textLines, options, x, maxY, currentY, i>>
  /\ UNCHANGED harnessVars

\* A block placed: currentY is advanced (lines 361, 420, 473, 521), the test
\* that follows (lines 362, 421, 474, 522) returns or the block st is done.
Placed(kind, level, st) ==
  IF currentY + LineHeight > maxY
  THEN /\ ret' = currentY + LineHeight
       /\ pc' = "done"
       /\ UNCHANGED <<doc, calls, currentY, i>>
  ELSE /\ currentY' = st.currentY
       /\ doc' = DocOf(st.sf)
       /\ calls' = calls \o Tagged(st.sf.log, i, kind, level)
       /\ i' = i + 1
       /\ UNCHANGED <<ret, pc>>

\* lines 356-412
HeadingBlock ==
  /\ AtLine("heading")
  /\ ~PageOverflows(currentY)
  /\ LET m == headerMatch(Trim(textLines[i]))
     IN  Placed("heading", m.level,
                headingBlock(Surface(doc, <<>>), m,
                             calculateIndentation(textLines[i]),
                             currentY + LineHeight))
  /\ UNCHANGED <<font, textLines, options, x, maxY>>
  /\ UNCHANGED harnessVars

\* lines 414-466
OrderedListBlock ==
  /\ AtLine("ordered")
  /\ ~PageOverflows(currentY)
  /\ Placed("ordered", 0,
            listBlock(Surface(doc, <<>>), orderedListMatch(Trim(textLines[i])),
                      calculateIndentation(textLines[i]),
                      currentY + LineHeight))
  /\ UNCHANGED <<font, textLines, options, x, maxY>>
  /\ UNCHANGED harnessVars

\* lines 468-519
UnorderedListBlock ==
  /\ AtLine("unordered")
  /\ ~PageOverflows(currentY)
  /\ Placed("unordered", 0,
            listBlock(Surface(doc, <<>>), unorderedListMatch(Trim(textLines[i])),
                      calculateIndentation(textLines[i]),
                      currentY + LineHeight))
  /\ UNCHANGED <<font, textLines, options, x, maxY>>
  /\ UNCHANGED harnessVars

\* lines 521-564
ParagraphBlock ==
  /\ AtLine("paragraph")
  /\ ~PageOverflows(currentY)
  /\ Placed("paragraph", 0,
            paragraphBlock(Surface(doc, <<>>), Trim(textLines[i]),
                           calculateIndentation(textLines[i]),
                           currentY + LineHeight))
  /\ UNCHANGED <<font, textLines, options, x, maxY>>
  /\ UNCHANGED harnessVars

\* line 567
ReturnEnd ==
  /\ pc = "loop"
  /\ i > Len(textLines)
  /\ ret' = currentY
  /\ pc' = "done"
  /\ UNCHANGED <<font, doc, calls, textLines, options, x, maxY, currentY, i>>
  /\ UNCHANGED harnessVars

Next ==
  \/ ReturnEmpty
  \/ Start
  \/ BlankLine
  \/ PageFull
  \/ HeadingBlock
  \/ OrderedListBlock
  \/ UnorderedListBlock
  \/ ParagraphBlock
  \/ ReturnEnd

Spec == Init /\ [][Next]_vars

Draws == SelectSeq(calls, LAMBDA c : c.op = "text")

\* C10: no doc.text call is made at a y beyond maxY, and once a sub-line has
\* been skipped for overflow no doc.text call follows, in that block or in a
\* later one.
C10_NothingDrawnBelowPage ==
  /\ \A k \in 1..Len(calls) : calls[k].op = "text" => calls[k].y <= maxY
  /\ \A j \in 1..Len(calls) : \A k \in 1..Len(calls) :
       calls[j].op = "skip" /\ j < k => calls[k].op # "text"

\* A run in which the second sub-line of the first block was skipped at the
\* page bottom, after the first was drawn, and a second block followed.
C10_Witness ==
  /\ pc = "done"
  /\ Len(textLines) = 2
  /\ \E j \in 1..Len(calls) : calls[j].op = "skip"
  /\ \E k \in 1..Len(calls) : calls[k].op = "text"

NonBlankLines == {k \in 1..Len(textLines) : Trim(textLines[k]) # <<>>}

DrawnBlocks == {Draws[k].blk : k \in 1..Len(Draws)}

\* C5: with the page bottom 1.5 line heights below the start and two
\* non-blank blocks, at most one block is drawn and the returned y is at most
\* maxY; "# Title" then "Second paragraph" with lineHeight 10, y 0 and maxY 12
\* (the heading on one line) draws the heading only and returns 10.
C5_PageTruncation ==
  pc = "done" =>
    /\ Cardinality(NonBlankLines) = 2 /\ 2 * maxY = 2 * call.y + 3 * LineHeight =>
         Cardinality(DrawnBlocks) <= 1 /\ ret <= maxY
    /\ textLines = << <<"#", " ", "T", "i", "t", "l", "e">>,
                      <<"S", "e", "c", "o", "n", "d", " ", "p", "a", "r", "a",
                        "g", "r", "a", "p", "h">> >>
         /\ LineHeight = 10 /\ call.y = 0 /\ maxY = 12
         /\ options.maxWidth = 400000 =>
         DrawnBlocks = {1} /\ ret = 10

\* C8: every measurement and every draw made for a heading block of level L
\* happens with the surface bold and at size fontSize * (2.5 - 0.3 * L); once
\* the block is done the surface is back at the base size and normal weight.
C8_HeadingBoldAtHeadingSize ==
  /\ \A k \in 1..Len(calls) :
       calls[k].kind = "heading" /\ calls[k].op \in {"text", "getTextWidth"} =>
         /\ calls[k].fontStyle = "bold"
         /\ calls[k].fontSize = HeadingFontSize(calls[k].level)
  /\ pc = "loop" /\ i > 1 /\ BlockKind(Trim(textLines[i - 1])) = "heading" =>
       doc = [fontStyle |-> "normal", fontSize |-> options.fontSize]

\* C9: every measurement and draw is made with the surface in the style of
\* the item measured or drawn: a segment in its own style, the gap width the
\* line breaker counts in the style of the block's gap markers, a list marker
\* in the base style and not in what an earlier block left.
C9_StyleSetForEachCall ==
  \A k \in 1..Len(calls) :
    /\ calls[k].own \in FontStyles => calls[k].fontStyle = calls[k].own
    /\ calls[k].own = "marker" => calls[k].fontStyle = "normal"
    /\ calls[k].own = "spaceWidth" =>
         \A j \in 1..Len(calls) :
           calls[j].blk = calls[k].blk /\ calls[j].op = "text"
             /\ calls[j].text = Gap =>
               calls[j].own = calls[k].fontStyle

====
